---- MODULE Spec2Model ----
(***************************************************************************)
(* Column layout of a flat list of items (anycol.py, pycoli/core.py).      *)
(*                                                                         *)
(* A string is a sequence of one-character strings.  A value is a record   *)
(* [t, s, n]: a Python str (t = "str", text s) or a Python int (t = "int", *)
(* number n).  A width argument is a record [kind, val]: None, an int or a *)
(* float.                                                                  *)
(***************************************************************************)
EXTENDS Integers, Sequences, FiniteSets, TLC

\* ------------------------------------------------------------------ bounds
MaxItems == 4
MaxWidth == 6
MaxSpacer == 1
MaxPairs == 2
MaxCols == 2
MaxRenders == 2

\* ------------------------------------------------------------ python values
StrVal(s) == [t |-> "str", s |-> s, n |-> 0]
IntVal(n) == [t |-> "int", s |-> <<>>, n |-> n]

Digit(d) == <<"0", "1", "2", "3", "4", "5", "6", "7", "8", "9">>[d + 1]

RECURSIVE NatStr(_)
NatStr(n) == IF n < 10 THEN <<Digit(n)>> ELSE NatStr(n \div 10) \o <<Digit(n % 10)>>

\* str(int)
IntStr(n) == IF n < 0 THEN <<"-">> \o NatStr(0 - n) ELSE NatStr(n)

\* str(value): a str is returned as it is, an int in decimal
Str(v) == IF v.t = "int" THEN IntStr(v.n) ELSE v.s

\* list(map(str, values))
MapStr(vs) == [i \in 1..Len(vs) |-> Str(vs[i])]

Min(a, b) == IF a <= b THEN a ELSE b

\* math.ceil(a / b) for a >= 0 and b >= 1
Ceil(a, b) == (a + b - 1) \div b

RECURSIVE SumSeq(_)
SumSeq(s) == IF s = <<>> THEN 0 ELSE Head(s) + SumSeq(Tail(s))

\* max(map(len, strings), default=0)
RECURSIVE MaxLenOf(_)
MaxLenOf(strs) ==
    IF strs = <<>> THEN 0
    ELSE LET m == MaxLenOf(Tail(strs))
         IN  IF Len(Head(strs)) >= m THEN Len(Head(strs)) ELSE m

RECURSIVE Concat(_)
Concat(ss) == IF ss = <<>> THEN <<>> ELSE Head(ss) \o Concat(Tail(ss))

\* n copies of the character c
Rep(c, n) == [i \in 1..n |-> c]

\* sep.join(parts)
RECURSIVE Join(_, _)
Join(sep, parts) ==
    IF parts = <<>> THEN <<>>
    ELSE IF Len(parts) = 1 THEN parts[1]
    ELSE parts[1] \o sep \o Join(sep, Tail(parts))

Whitespace == {" ", "\t", "\n", "\r"}

\* str.rstrip()
RECURSIVE RStrip(_)
RStrip(s) ==
    IF s = <<>> THEN <<>>
    ELSE IF s[Len(s)] \in Whitespace THEN RStrip(SubSeq(s, 1, Len(s) - 1))
    ELSE s

\* ------------------------------------------------------------------ anycol.py
\* seq[i : i + n] for the 0-based offset i (a Python slice, clipped to the sequence)
Slice(seq, i, n) == SubSeq(seq, i + 1, Min(i + n, Len(seq)))

\* more_itertools.sliced(seq, n): the slices at offsets 0, n, 2n, ... up to the
\* first empty one
RECURSIVE SlicedFrom(_, _, _)
SlicedFrom(seq, n, i) ==
    IF Len(Slice(seq, i, n)) = 0 THEN <<>>
    ELSE <<Slice(seq, i, n)>> \o SlicedFrom(seq, n, i + n)

\* Sliced with a fault: every slice after the first starts one item late
RECURSIVE SlicedGapFrom(_, _, _)
SlicedGapFrom(seq, n, i) ==
    IF Len(Slice(seq, i, n)) = 0 THEN <<>>
    ELSE <<Slice(seq, i, n)>> \o SlicedGapFrom(seq, n, i + n + 1)

SlicedGap(seq, n) == SlicedGapFrom(seq, n, 0)

Sliced(seq, n) == SlicedFrom(seq, n, 0)

\* anycol.Column(strings)
AColumn(strings) == [strings |-> strings]

\* Column.get_width
GetWidth(col) == MaxLenOf(col.strings)

\* ColumnCalculator.build_columns, for num_columns >= 1
BuildColumns(strings, num_columns) ==
    LET num_lines == Ceil(Len(strings), num_columns)
        runs == Sliced(strings, num_lines)
    IN  [j \in 1..Len(runs) |-> AColumn(runs[j])]

\* FitsInLine with a fault: the spacing between the columns is not counted
FitsInLineNoSpacing(columns, spacing, line_width) ==
    SumSeq([j \in 1..Len(columns) |-> GetWidth(columns[j])]) + 1 <= line_width

\* ColumnCalculator.fits_in_line
FitsInLine(columns, spacing, line_width) ==
    LET total_column_widths == SumSeq([j \in 1..Len(columns) |-> GetWidth(columns[j])])
        total_spacing == (Len(columns) - 1) * spacing
        total_width == total_column_widths + total_spacing + 1
    IN  total_width <= line_width

\* the column count get_fitting_columns starts its search with
StartCount(line_width, n) == Min(line_width, n)

\* RetryCount with a fault: the search steps down by two columns while it can
RetryCountSkip(columns) == IF Len(columns) > 2 THEN Len(columns) - 2 ELSE Len(columns) - 1

\* the column count get_fitting_columns asks for after a candidate did not fit
RetryCount(columns) == Len(columns) - 1

\* get_fitting_columns: the while loop run to its end from a candidate
RECURSIVE SearchFrom(_, _, _, _)
SearchFrom(strings, spacing, line_width, columns) ==
    IF Len(columns) > 1 /\ ~FitsInLine(columns, spacing, line_width)
    THEN SearchFrom(strings, spacing, line_width,
                    BuildColumns(strings, RetryCount(columns)))
    ELSE columns

\* ColumnCalculator(strings, spacing).get_fitting_columns(line_width) as one
\* call: the columns it returns, or the error build_columns raises when it is
\* asked for 0 columns
GetFittingColumns(strings, spacing, line_width) ==
    IF StartCount(line_width, Len(strings)) = 0
    THEN [err |-> "ZeroDivisionError", columns |-> <<>>]
    ELSE [err |-> "none",
          columns |-> SearchFrom(strings, spacing, line_width,
                          BuildColumns(strings, StartCount(line_width, Len(strings))))]

\* GetMappingColumns with a fault: the values are not converted to strings
GetMappingColumnsRaw(mapping) ==
    << AColumn(MapStr([i \in 1..Len(mapping) |-> mapping[i].key])),
       AColumn([i \in 1..Len(mapping) |-> mapping[i].val.s]) >>

\* get_mapping_columns: Column.from_iterable of the keys, then of the values
GetMappingColumns(mapping) ==
    << AColumn(MapStr([i \in 1..Len(mapping) |-> mapping[i].key])),
       AColumn(MapStr([i \in 1..Len(mapping) |-> mapping[i].val])) >>

\* str(Item(string, width)): truncated to the width, then left-justified
ItemStr(string, width) ==
    LET cut == SubSeq(string, 1, Min(width, Len(string)))
    IN  cut \o Rep(" ", width - Len(cut))

\* the number of rows zip_longest yields: the length of the longest iterable
RECURSIVE MaxCount(_)
MaxCount(counts) ==
    IF counts = <<>> THEN 0
    ELSE LET m == MaxCount(Tail(counts))
         IN  IF Head(counts) >= m THEN Head(counts) ELSE m

\* iter_lines before the rstrip: row i joins str(Item) of every column that has
\* an i-th string and the fill value "" of every column that has none
IterLinesRaw(columns, spacer) ==
    LET rows == MaxCount([j \in 1..Len(columns) |-> Len(columns[j].strings)])
        Cell(j, i) == IF i <= Len(columns[j].strings)
                      THEN ItemStr(columns[j].strings[i], GetWidth(columns[j]))
                      ELSE <<>>
    IN  [i \in 1..rows |-> Join(spacer, [j \in 1..Len(columns) |-> Cell(j, i)])]

\* iter_lines
IterLines(columns, spacer) ==
    LET raw == IterLinesRaw(columns, spacer)
    IN  [i \in 1..Len(raw) |-> RStrip(raw[i])]

\* -------------------------------------------------------------- pycoli/core.py
NoneW == [kind |-> "none", val |-> 0]
IntW(n) == [kind |-> "int", val |-> n]
FloatW(n) == [kind |-> "float", val |-> n]

\* WidthOk with a fault: the isinstance test is missing
WidthOkAnyNumber(width) == width.kind = "none" \/ width.val > 0

\* Column.__init__'s test of its width argument: None, or an int greater than 0
WidthOk(width) ==
    \/ width.kind = "none"
    \/ (width.kind = "int" /\ width.val > 0)

\* the Column that Column.__init__ builds from accepted arguments
Column(items, width, align) == [items |-> items, width |-> width, align |-> align]

\* Column.__iter__: the items as strings
ColStrings(col) == MapStr(col.items)

\* Column.__len__: the fixed width, or the longest string's length
ColLen(col) ==
    IF col.width.kind # "none" THEN col.width.val
    ELSE MaxLenOf(ColStrings(col))

\* Column.template: "{:" align width "}"
ColTemplate(col) == <<"{", ":", col.align>> \o IntStr(ColLen(col)) \o <<"}">>

\* the value of a run of decimal digits (0 for none)
RECURSIVE DigitsVal(_)
DigitsVal(ds) ==
    IF ds = <<>> THEN 0
    ELSE LET d == CHOOSE x \in 0..9 : Digit(x) = ds[Len(ds)]
         IN  10 * DigitsVal(SubSeq(ds, 1, Len(ds) - 1)) + d

\* str.__format__ for a format spec made of an alignment and digits: a leading 0
\* is the zero-fill flag, the remaining digits are the width, and no digits
\* mean no minimum width.  The text is never cut.
FormatStr(text, spec) ==
    LET align == spec[1]
        zero == Len(spec) >= 2 /\ spec[2] = "0"
        fill == IF zero THEN "0" ELSE " "
        digits == SubSeq(spec, IF zero THEN 3 ELSE 2, Len(spec))
        total == IF digits = <<>> THEN 0 ELSE DigitsVal(digits)
        pad == IF total > Len(text) THEN total - Len(text) ELSE 0
        lpad == IF align = ">" THEN pad
                ELSE IF align = "^" THEN pad \div 2
                ELSE 0
    IN  Rep(fill, lpad) \o text \o Rep(fill, pad - lpad)

\* the offset of the first character from position i on that is in stop, or
\* Len(t) + 1 when there is none
RECURSIVE Scan(_, _, _)
Scan(t, i, stop) ==
    IF i > Len(t) THEN Len(t) + 1
    ELSE IF t[i] \in stop THEN i
    ELSE Scan(t, i + 1, stop)

FormatError(kind) == [ok |-> FALSE, s |-> <<>>, err |-> kind]

\* str.format(*args) from position i of the template t, a being the next
\* automatic field number: literal text is copied, "{{" and "}}" give one brace,
\* a single "}" or a final "{" is a ValueError, and "{" name [":" spec] "}" is a
\* replacement field (an empty name takes the next argument, any other name of
\* the characters that occur here is a keyword no one passed).
RECURSIVE FormatFrom(_, _, _, _)
FormatFrom(t, i, a, args) ==
    IF i > Len(t) THEN [ok |-> TRUE, s |-> <<>>, err |-> "none"]
    ELSE IF t[i] = "}" THEN
        IF i < Len(t) /\ t[i + 1] = "}" THEN
            LET rest == FormatFrom(t, i + 2, a, args)
            IN  IF rest.ok THEN [rest EXCEPT !.s = <<"}">> \o rest.s] ELSE rest
        ELSE FormatError("ValueError")
    ELSE IF t[i] = "{" THEN
        IF i = Len(t) THEN FormatError("ValueError")
        ELSE IF t[i + 1] = "{" THEN
            LET rest == FormatFrom(t, i + 2, a, args)
            IN  IF rest.ok THEN [rest EXCEPT !.s = <<"{">> \o rest.s] ELSE rest
        ELSE
            LET e == Scan(t, i + 1, {"{", "}", ":", "!"})
                name == SubSeq(t, i + 1, e - 1)
            IN  IF e > Len(t) \/ t[e] = "{" \/ t[e] = "!" THEN FormatError("ValueError")
                ELSE LET close == IF t[e] = ":" THEN Scan(t, e + 1, {"{", "}"}) ELSE e
                     IN  IF close > Len(t) \/ t[close] = "{" THEN FormatError("ValueError")
                         ELSE IF name # <<>> THEN FormatError("KeyError")
                         ELSE IF a > Len(args) THEN FormatError("IndexError")
                         ELSE LET spec == SubSeq(t, e + 1, close - 1)
                                  text == IF spec = <<>> THEN args[a]
                                          ELSE FormatStr(args[a], spec)
                                  rest == FormatFrom(t, close + 1, a + 1, args)
                              IN  IF rest.ok THEN [rest EXCEPT !.s = text \o rest.s]
                                  ELSE rest
    ELSE
        LET rest == FormatFrom(t, i + 1, a, args)
        IN  IF rest.ok THEN [rest EXCEPT !.s = <<t[i]>> \o rest.s] ELSE rest

\* template.format(*args)
Format(t, args) == FormatFrom(t, 1, 1, args)

\* Screen.template: the column templates joined by the spacer
ScreenTemplate(columns, spacer) ==
    Join(spacer, [j \in 1..Len(columns) |-> ColTemplate(columns[j])])

\* Screen.columns: a Column of the model is taken as it is, any other
\* iterable becomes Column(item), which reads the iterable to its end
ScreenColumns(model) ==
    [j \in 1..Len(model) |->
        IF model[j].kind = "column"
        THEN Column(model[j].items, model[j].width, model[j].align)
        ELSE Column(model[j].items, NoneW, "<")]

\* the model after Screen.columns has read it: a one-shot iterator is exhausted
Consumed(model) ==
    [j \in 1..Len(model) |->
        IF model[j].kind = "iter" THEN [model[j] EXCEPT !.items = <<>>] ELSE model[j]]

\* the rows of zip_longest(*columns, fillvalue=""): row i holds every column's
\* i-th string, "" for a column that has none
ZipLongest(columns) ==
    LET rows == MaxCount([j \in 1..Len(columns) |-> Len(columns[j].items)])
    IN  [i \in 1..rows |->
            [j \in 1..Len(columns) |->
                IF i <= Len(columns[j].items) THEN ColStrings(columns[j])[i] ELSE <<>>]]

\* the loop of Screen.__iter__ read to its end: every row through the template,
\* the first row that cannot be formatted raising its error
ScreenRowsOf(template, columns) ==
    LET rowvals == ZipLongest(columns)
        fmt == [i \in 1..Len(rowvals) |-> Format(template, rowvals[i])]
        bad == {i \in 1..Len(rowvals) : ~fmt[i].ok}
    IN  IF bad # {}
        THEN [err |-> fmt[CHOOSE i \in bad : \A b \in bad : i <= b].err,
              raw |-> <<>>, lines |-> <<>>]
        ELSE [err |-> "none",
              raw |-> [i \in 1..Len(rowvals) |-> fmt[i].s],
              lines |-> [i \in 1..Len(rowvals) |-> RStrip(fmt[i].s)]]

\* ArrangeLists with a fault: the items are dealt round-robin (idx % cols)
RECURSIVE EveryNth(_, _, _)
EveryNth(items, from, step) ==
    IF from > Len(items) THEN <<>>
    ELSE <<items[from]>> \o EveryNth(items, from + step, step)

ArrangeListsRoundRobin(items, cols) == [c \in 1..cols |-> EveryNth(items, c, cols)]

\* arrange_columns: the lists the items are dealt into for this many columns
ArrangeLists(items, cols) ==
    LET rows == Ceil(Len(items), cols)
    IN  [c \in 1..cols |->
            LET idx == {i \in 1..Len(items) : (i - 1) \div rows = c - 1}
                lo == IF idx = {} THEN 1 ELSE CHOOSE i \in idx : \A x \in idx : i <= x
            IN  SubSeq(items, lo, lo + Cardinality(idx) - 1)]

\* arrange_columns: the width handed to the Column at 0-based index i
WidthFor(col_widths, i) ==
    IF col_widths.given /\ i < Len(col_widths.ws) THEN col_widths.ws[i + 1] ELSE NoneW

\* arrange_columns: whether every Column of a candidate with cols columns
\* can be constructed
CandidateOk(col_widths, cols) == \A i \in 0..(cols - 1) : WidthOk(WidthFor(col_widths, i))

\* arrange_columns: col_objs of the candidate with cols columns
Candidate(items, cols, col_widths) ==
    LET lists == ArrangeLists(items, cols)
    IN  [c \in 1..cols |-> Column(lists[c], WidthFor(col_widths, c - 1), "<")]

\* arrange_columns: total_width of a candidate
TotalWidth(col_objs, spacer) ==
    SumSeq([c \in 1..Len(col_objs) |-> ColLen(col_objs[c])])
        + Len(spacer) * (Len(col_objs) - 1)

\* arrange_columns: the width of the single Column it falls back to
FallbackWidth(col_widths) ==
    IF col_widths.given /\ Len(col_widths.ws) > 0 THEN col_widths.ws[1] ELSE NoneW

\* ------------------------------------------------------------------- state
VARIABLES
    op,          \* the entry point called: "columnize", "arrange", "screen", "column"
    values,      \* columnize's values / arrange_columns' items: [mapping, seq]
    spacer,      \* the spacer string
    width,       \* line_width (columnize), width (arrange_columns)
    col_widths,  \* arrange_columns' col_widths: [given, ws], given = FALSE for None
    arg,         \* the arguments of a direct Column(items, width, align) call
    pc,          \* where the call stands
    strings,     \* ColumnCalculator.strings
    k,           \* the column count of the candidate built last (cols in arrange_columns)
    columns,     \* the candidate built last, then the columns returned
    tried,       \* the number of candidates built so far
    model,       \* Screen.model: each item a Column, a list or a one-shot iterator
    seen,        \* what each read of Screen.columns returned in the current render
    template,    \* the local template of Screen.__iter__
    out,         \* the renders finished so far, one [err, raw, lines] each
    err          \* the exception the call raised, "none" for none

vars == <<op, values, spacer, width, col_widths, arg, pc, strings, k, columns,
          tried, model, seen, template, out, err>>

\* ------------------------------------------------------------------ inputs
ItemValues == {StrVal(<<>>), StrVal(<<"a">>), StrVal(<<"b", " ">>), IntVal(10)}

SeqsUpTo(S, n) == UNION {[1..m -> S] : m \in 0..n}

ItemLists == SeqsUpTo(ItemValues, MaxItems)

MapKeys == {StrVal(<<"k">>), StrVal(<<"7">>), IntVal(7)}
MapVals == {StrVal(<<"v", " ">>), IntVal(-3)}

\* a mapping is its (key, value) pairs in iteration order, the keys distinct
Mappings ==
    {m \in SeqsUpTo([key : MapKeys, val : MapVals], MaxPairs) :
        \A i, j \in 1..Len(m) : i # j => m[i].key # m[j].key}

SolveSpacers == {Rep(" ", n) : n \in 0..MaxSpacer}

Widths == 0..MaxWidth

NoColWidths == [given |-> FALSE, ws |-> <<>>]
NoArg == [items |-> <<>>, width |-> NoneW, align |-> "<"]
NoRender == [err |-> "none", raw |-> <<>>, lines |-> <<>>]

Alignments == {"<", ">", "^"}

\* the state before a call, its arguments chosen
Blank ==
    /\ pc = "start"
    /\ strings = <<>>
    /\ k = 0
    /\ columns = <<>>
    /\ tried = 0
    /\ seen = <<>>
    /\ template = <<>>
    /\ out = <<>>
    /\ err = "none"

InitSolve ==
    /\ op \in {"columnize", "arrange"}
    /\ values \in [mapping : {FALSE}, seq : ItemLists]
                  \cup [mapping : {TRUE}, seq : Mappings]
    /\ (values.mapping => op = "columnize")
    /\ spacer \in SolveSpacers
    /\ width \in Widths
    /\ col_widths = NoColWidths
    /\ arg = NoArg
    /\ model = <<>>
    /\ Blank

\* ----------------------------------------------------------------- anycol.py
\* how many times a finished layout is rendered
NextRender(n) == IF n < MaxRenders THEN "render" ELSE "done"

\* columnize up to the first candidate: get_columns dispatches on the type of
\* values; a mapping gets its two columns, anything else goes through
\* list(map(str, values)) to get_fitting_columns, which builds the first
\* candidate (build_columns divides by the column count it is given)
Columnize ==
    /\ op = "columnize" /\ pc = "start"
    /\ IF values.mapping
       THEN /\ columns' = GetMappingColumns(values.seq)
            /\ pc' = "render"
            /\ UNCHANGED <<strings, k, tried, err>>
       ELSE LET strs == MapStr(values.seq)
                k0 == StartCount(width, Len(strs))
            IN  /\ strings' = strs
                /\ IF k0 = 0
                   THEN /\ err' = "ZeroDivisionError"
                        /\ pc' = "raised"
                        /\ UNCHANGED <<k, columns, tried>>
                   ELSE /\ k' = k0
                        /\ columns' = BuildColumns(strs, k0)
                        /\ tried' = 1
                        /\ pc' = "search"
                        /\ err' = err
    /\ UNCHANGED <<op, values, spacer, width, col_widths, arg, model, seen, template, out>>

\* get_fitting_columns: the loop's test
SearchGoesOn == Len(columns) > 1 /\ ~FitsInLine(columns, Len(spacer), width)

\* get_fitting_columns: one turn of the while loop
SearchRetry ==
    /\ op = "columnize" /\ pc = "search"
    /\ SearchGoesOn
    /\ k' = RetryCount(columns)
    /\ columns' = BuildColumns(strings, RetryCount(columns))
    /\ tried' = tried + 1
    /\ UNCHANGED <<op, values, spacer, width, col_widths, arg, pc, strings, model,
                   seen, template, out, err>>

\* get_fitting_columns: the loop ends and the candidate is returned
SearchReturn ==
    /\ op = "columnize" /\ pc = "search"
    /\ ~SearchGoesOn
    /\ pc' = "render"
    /\ UNCHANGED <<op, values, spacer, width, col_widths, arg, strings, k, columns,
                   tried, model, seen, template, out, err>>

\* columnize: iter_lines over the columns, read to its end
RenderLines ==
    /\ op = "columnize" /\ pc = "render"
    /\ out' = Append(out, [err |-> "none",
                           raw |-> IterLinesRaw(columns, spacer),
                           lines |-> IterLines(columns, spacer)])
    /\ pc' = NextRender(Len(out) + 1)
    /\ UNCHANGED <<op, values, spacer, width, col_widths, arg, strings, k, columns,
                   tried, model, seen, template, err>>

\* ------------------------------------------------------------ pycoli/core.py
\* Column.__init__ called directly
ColumnInit ==
    /\ op = "column" /\ pc = "start"
    /\ IF WidthOk(arg.width)
       THEN /\ columns' = <<Column(arg.items, arg.width, arg.align)>>
            /\ pc' = "returned"
            /\ err' = err
       ELSE /\ err' = "ValueError"
            /\ pc' = "raised"
            /\ columns' = columns
    /\ UNCHANGED <<op, values, spacer, width, col_widths, arg, strings, k, tried,
                   model, seen, template, out>>

\* arrange_columns up to its loop: no items, no columns
ArrangeStart ==
    /\ op = "arrange" /\ pc = "start"
    /\ pc' = IF Len(values.seq) = 0 THEN "returned" ELSE "loop"
    /\ UNCHANGED <<op, values, spacer, width, col_widths, arg, strings, k, columns,
                   tried, model, seen, template, out, err>>

\* arrange_columns: the value of cols in the next turn of
\* "for cols in range(n_items, 0, -1)"
NextCols == IF tried = 0 THEN Len(values.seq) ELSE k - 1

\* arrange_columns: one turn of the for loop.  The candidate's Columns are
\* constructed (a refused width raises), then measured; a candidate that fits
\* is returned, otherwise the loop goes on to cols - 1 or runs out
ArrangeTry ==
    /\ op = "arrange" /\ pc = "loop"
    /\ IF ~CandidateOk(col_widths, NextCols)
       THEN /\ err' = "ValueError"
            /\ pc' = "raised"
            /\ UNCHANGED <<k, columns, tried>>
       ELSE LET col_objs == Candidate(values.seq, NextCols, col_widths)
            IN  /\ k' = NextCols
                /\ columns' = col_objs
                /\ tried' = tried + 1
                /\ err' = err
                /\ pc' = IF TotalWidth(col_objs, spacer) <= width THEN "returned"
                         ELSE IF NextCols > 1 THEN "loop"
                         ELSE "fallback"
    /\ UNCHANGED <<op, values, spacer, width, col_widths, arg, strings, model,
                   seen, template, out>>

\* arrange_columns: no candidate fitted, one Column of all the items
ArrangeFallback ==
    /\ op = "arrange" /\ pc = "fallback"
    /\ IF WidthOk(FallbackWidth(col_widths))
       THEN /\ columns' = <<Column(values.seq, FallbackWidth(col_widths), "<")>>
            /\ pc' = "returned"
            /\ err' = err
       ELSE /\ err' = "ValueError"
            /\ pc' = "raised"
            /\ columns' = columns
    /\ UNCHANGED <<op, values, spacer, width, col_widths, arg, strings, k, tried,
                   model, seen, template, out>>

\* Screen(columns, spacer, width) over the columns arrange_columns returned
ScreenInit ==
    /\ op = "arrange" /\ pc = "returned"
    /\ model' = [j \in 1..Len(columns) |->
                    [kind |-> "column", items |-> columns[j].items,
                     width |-> columns[j].width, align |-> columns[j].align]]
    /\ pc' = "check"
    /\ UNCHANGED <<op, values, spacer, width, col_widths, arg, strings, k, columns,
                   tried, seen, template, out, err>>

\* how many times a Screen is iterated
NextIter(n) == IF n < MaxRenders THEN "check" ELSE "done"

\* Screen.__iter__: "if not self.columns: return"
IterCheck ==
    /\ pc = "check"
    /\ seen' = <<ScreenColumns(model)>>
    /\ model' = Consumed(model)
    /\ IF Len(ScreenColumns(model)) = 0
       THEN out' = Append(out, NoRender) /\ pc' = NextIter(Len(out) + 1)
       ELSE out' = out /\ pc' = "template"
    /\ UNCHANGED <<op, values, spacer, width, col_widths, arg, strings, k, columns,
                   tried, template, err>>

\* Screen.__iter__: "template = self.template"
IterTemplate ==
    /\ pc = "template"
    /\ seen' = Append(seen, ScreenColumns(model))
    /\ model' = Consumed(model)
    /\ template' = ScreenTemplate(ScreenColumns(model), spacer)
    /\ pc' = "rows"
    /\ UNCHANGED <<op, values, spacer, width, col_widths, arg, strings, k, columns,
                   tried, out, err>>

\* Screen.__iter__: the loop over zip_longest(*self.columns), read to its end
IterRows ==
    /\ pc = "rows"
    /\ seen' = Append(seen, ScreenColumns(model))
    /\ model' = Consumed(model)
    /\ out' = Append(out, ScreenRowsOf(template, ScreenColumns(model)))
    /\ pc' = NextIter(Len(out) + 1)
    /\ UNCHANGED <<op, values, spacer, width, col_widths, arg, strings, k, columns,
                   tried, template, err>>

\* ---------------------------------------------------------- specifications
\* the two layout solvers and the rendering of what they return
NextSolve ==
    \/ Columnize
    \/ SearchRetry
    \/ SearchReturn
    \/ RenderLines
    \/ ArrangeStart
    \/ ArrangeTry
    \/ ArrangeFallback
    \/ ScreenInit
    \/ IterCheck
    \/ IterTemplate
    \/ IterRows

SpecSolve == InitSolve /\ [][NextSolve]_vars

\* a Screen over a model of Columns, lists and one-shot iterators
ColumnContents ==
    {<<>>, <<StrVal(<<"x">>)>>, <<StrVal(<<"x">>), StrVal(<<"y", " ">>)>>,
     <<IntVal(10), StrVal(<<"x">>)>>}

ColumnStyles ==
    {[width |-> NoneW, align |-> "<"], [width |-> NoneW, align |-> ">"],
     [width |-> IntW(4), align |-> ">"], [width |-> IntW(4), align |-> "^"],
     [width |-> IntW(1), align |-> "^"]}

ModelItems ==
    {[kind |-> "column", items |-> c, width |-> st.width, align |-> st.align] :
        c \in ColumnContents, st \in ColumnStyles}
    \cup [kind : {"list", "iter"}, items : ColumnContents,
          width : {NoneW}, align : {"<"}]

ScreenSpacers == {<<>>, <<" ">>, <<" ", "|", " ">>, <<"{">>, <<"{", "{">>, <<"}", "}">>,
                  <<"{", "}">>}

InitScreen ==
    /\ op = "screen"
    /\ values = [mapping |-> FALSE, seq |-> <<>>]
    /\ spacer \in ScreenSpacers
    /\ width = 0
    /\ col_widths = NoColWidths
    /\ arg = NoArg
    /\ model \in SeqsUpTo(ModelItems, MaxCols)
    /\ pc = "check"
    /\ strings = <<>>
    /\ k = 0
    /\ columns = <<>>
    /\ tried = 0
    /\ seen = <<>>
    /\ template = <<>>
    /\ out = <<>>
    /\ err = "none"

NextScreen ==
    \/ IterCheck
    \/ IterTemplate
    \/ IterRows

SpecScreen == InitScreen /\ [][NextScreen]_vars

\* Column and arrange_columns with fixed widths
WidthArgs == {NoneW, IntW(-1), IntW(0), IntW(1), IntW(3), FloatW(2)}

ColWidthsArgs ==
    {NoColWidths} \cup [given : {TRUE}, ws : SeqsUpTo(WidthArgs, MaxCols)]

WidthItems == {StrVal(<<>>), StrVal(<<"a">>), IntVal(10)}

InitWidths ==
    /\ op \in {"column", "arrange"}
    /\ IF op = "column"
       THEN /\ arg \in [items : SeqsUpTo(WidthItems, MaxCols), width : WidthArgs,
                        align : Alignments]
            /\ values = [mapping |-> FALSE, seq |-> <<>>]
            /\ spacer = <<>>
            /\ width = 0
            /\ col_widths = NoColWidths
       ELSE /\ arg = NoArg
            /\ values \in [mapping : {FALSE}, seq : SeqsUpTo(WidthItems, MaxCols + 1)]
            /\ spacer \in SolveSpacers
            /\ width \in Widths
            /\ col_widths \in ColWidthsArgs
    /\ model = <<>>
    /\ Blank

NextWidths ==
    \/ ColumnInit
    \/ ArrangeStart
    \/ ArrangeTry
    \/ ArrangeFallback

SpecWidths == InitWidths /\ [][NextWidths]_vars

\* ------------------------------------------------------------------ claims
\* a solver call on a list of items (not a mapping)
Solving == op \in {"columnize", "arrange"} /\ ~values.mapping

\* the solver has returned its columns
Returned ==
    \/ (op = "columnize" /\ pc \in {"render", "done"})
    \/ (op = "arrange" /\ pc \in {"returned", "check", "template", "rows", "done"})

\* a candidate partition has been built and stands in columns
HasCandidate == Returned \/ (pc \in {"search", "loop", "fallback"} /\ tried >= 1)

\* the length of the longest item's string form
Longest == MaxLenOf([i \in 1..Len(values.seq) |-> Str(values.seq[i])])

\* the effective width of column j of the layout in columns
EffWidth(j) ==
    IF op = "columnize" THEN GetWidth(columns[j]) ELSE ColLen(columns[j])

\* sum of the effective widths + len(spacer) * (columns - 1)
LayoutWidth ==
    SumSeq([j \in 1..Len(columns) |-> EffWidth(j)]) + Len(spacer) * (Len(columns) - 1)

\* C1: for a non-empty item list and max_width >= longest item + 1 (no fixed
\* column widths), the solver raises nothing and returns at least one column,
\* the layout's width (sum of the effective widths + len(spacer) * (columns - 1))
\* is at most max_width, and every rendered line is at most max_width long
\* both before and after its trailing whitespace is stripped.
C1_WidthBound ==
    (Solving /\ Len(values.seq) >= 1 /\ width >= Longest + 1) =>
        /\ err = "none"
        /\ Returned => (Len(columns) >= 1 /\ LayoutWidth <= width)
        /\ \A r \in 1..Len(out) :
            /\ out[r].err = "none"
            /\ \A i \in 1..Len(out[r].raw) :
                /\ Len(out[r].raw[i]) <= LayoutWidth
                /\ Len(out[r].raw[i]) <= width
                /\ Len(out[r].lines[i]) <= width

\* C1 witness: arrange_columns returned several columns that fill the width
\* exactly and the Screen rendered a line of exactly max_width characters
C1_Witness ==
    /\ op = "arrange" /\ pc = "done"
    /\ Len(values.seq) >= 3 /\ width >= Longest + 1
    /\ Len(columns) >= 2
    /\ Len(spacer) = 1
    /\ \E i \in 1..Len(out[1].raw) : Len(out[1].raw[i]) = width

\* the items of the columns in column order, one after the other
ColumnsConcat ==
    Concat([j \in 1..Len(columns) |->
              IF op = "columnize" THEN columns[j].strings ELSE columns[j].items])

\* C2: column-major invariant: the items of the columns of every candidate
\* built during the search, and of the layout returned, concatenated in column
\* order are exactly the input sequence (for columnize: the string forms that
\* ColumnCalculator was given).
C2_ColumnMajor ==
    (Solving /\ HasCandidate) =>
        IF op = "columnize"
        THEN /\ Len(strings) = Len(values.seq)
             /\ \A i \in 1..Len(strings) : strings[i] = Str(values.seq[i])
             /\ ColumnsConcat = strings
        ELSE ColumnsConcat = values.seq

\* C2 witness: a ragged two-column candidate of three items in the middle of
\* get_fitting_columns' search
C2_Witness ==
    /\ op = "columnize" /\ pc = "search" /\ tried >= 2
    /\ Len(strings) = 3 /\ Len(columns) = 2
    /\ strings[1] # strings[2] /\ strings[2] # strings[3]

\* C3: an empty item list is not an error: the solver raises nothing and
\* returns no columns, and every render of that layout has no lines.
C3_EmptyInput ==
    (Solving /\ Len(values.seq) = 0) =>
        /\ err = "none"
        /\ pc # "raised"
        /\ Returned => columns = <<>>
        /\ \A r \in 1..Len(out) : out[r].err = "none" /\ out[r].lines = <<>>

\* C6: a mapping bypasses the fitting algorithm: for every mapping, spacer and
\* line_width, get_columns raises nothing, builds no candidate and returns
\* exactly two columns, the string forms of the keys and of the values, both in
\* key iteration order and equally long; row i of every render is key i and
\* its own value, each padded to its column's width.
C6_MappingTwoColumns ==
    (op = "columnize" /\ values.mapping) =>
        /\ err = "none" /\ pc # "raised" /\ pc # "search"
        /\ tried = 0
        /\ pc # "start" =>
            /\ Len(columns) = 2
            /\ Len(columns[1].strings) = Len(values.seq)
            /\ Len(columns[2].strings) = Len(values.seq)
            /\ \A i \in 1..Len(values.seq) :
                /\ columns[1].strings[i] = Str(values.seq[i].key)
                /\ columns[2].strings[i] = Str(values.seq[i].val)
        /\ \A r \in 1..Len(out) :
            /\ Len(out[r].raw) = Len(values.seq)
            /\ \A i \in 1..Len(values.seq) :
                out[r].raw[i] =
                    ItemStr(Str(values.seq[i].key), GetWidth(columns[1]))
                    \o spacer
                    \o ItemStr(Str(values.seq[i].val), GetWidth(columns[2]))

\* C6 witness: a mapping of two pairs, an int among its values, rendered at a
\* line_width far too small for two columns
C6_Witness ==
    /\ op = "columnize" /\ values.mapping /\ pc = "done"
    /\ Len(values.seq) = 2 /\ width = 0
    /\ values.seq[1].key = IntVal(7) /\ values.seq[2].val = IntVal(-3)
    /\ columns[1].strings[1] = <<"7">> /\ columns[2].strings[2] = <<"-", "3">>

\* a width argument that is supplied and is not a positive integer
BadWidth(w) == w.kind # "none" /\ ~(w.kind = "int" /\ w.val >= 1)

\* arrange_columns' first candidate has one column per item: the indexes of
\* col_widths it uses are those below the item count
UsesBadWidth ==
    /\ col_widths.given
    /\ \E i \in 1..Len(col_widths.ws) : i <= Len(values.seq) /\ BadWidth(col_widths.ws[i])

\* C7: Column(items, width, align) raises and yields no Column exactly when
\* the width is supplied and is not a positive integer; arrange_columns given
\* such a width at a column index it uses raises that error and returns no
\* layout, and raises nothing otherwise; every Column that exists has an
\* effective width >= 0.
C7_InvalidWidth ==
    /\ (op = "column" /\ pc # "start") =>
        IF BadWidth(arg.width)
        THEN pc = "raised" /\ err = "ValueError" /\ columns = <<>>
        ELSE /\ pc = "returned" /\ err = "none"
             /\ columns = <<[items |-> arg.items, width |-> arg.width, align |-> arg.align]>>
    /\ (op = "arrange" /\ UsesBadWidth) =>
        /\ pc \in {"start", "loop", "raised"}
        /\ columns = <<>>
        /\ pc = "raised" => err = "ValueError"
    /\ (op = "arrange" /\ ~UsesBadWidth) => (pc # "raised" /\ err = "none")
    /\ op \in {"column", "arrange"} =>
        \A j \in 1..Len(columns) :
            /\ ColLen(columns[j]) >= 0
            /\ columns[j].width.kind # "none" =>
                (columns[j].width.kind = "int" /\ columns[j].width.val >= 1)

\* C7 witness: arrange_columns raised on a float width at the second column
\* index, the first one being a valid width
C7_Witness ==
    /\ op = "arrange" /\ pc = "raised"
    /\ Len(values.seq) >= 2
    /\ Len(col_widths.ws) = 2
    /\ col_widths.ws[1] = IntW(3) /\ col_widths.ws[2] = FloatW(2)

\* the items of column j of the candidate in columns
ColItems(j) == IF op = "columnize" THEN columns[j].strings ELSE columns[j].items

\* the solver's input sequence as the columns hold it
Input == IF op = "columnize" THEN strings ELSE values.seq

\* the candidate in columns was built for the column count k, 1 <= k <= n
CandidateForK ==
    /\ Solving /\ HasCandidate
    /\ Len(Input) >= 1
    /\ 1 <= k /\ k <= Len(Input)

\* rows = ceil(n / k), written as the least r with r * k >= n
RowsFor(n, count) == CHOOSE r \in 0..n : r * count >= n /\ \A q \in 0..n : q * count >= n => r <= q

\* C8 as claimed: the partition built for k has exactly k columns, column j
\* holds the run [j*rows, (j+1)*rows) of the input, every column but the last
\* holds rows items and the last holds between 1 and rows items.
C8_ExactlyKColumns ==
    CandidateForK =>
        LET n == Len(Input)
            rows == RowsFor(n, k)
        IN  /\ Len(columns) = k
            /\ \A j \in 1..Len(columns) :
                /\ j < Len(columns) => Len(ColItems(j)) = rows
                /\ Len(ColItems(j)) >= 1 /\ Len(ColItems(j)) <= rows
                /\ \A i \in 1..Len(ColItems(j)) :
                    ColItems(j)[i] = Input[(j - 1) * rows + i]

\* C8 as amended: with rows = ceil(n / k), column j holds the run
\* [j*rows, min((j+1)*rows, n)) of the input; the first ceil(n / rows) <= k
\* columns are not empty, all of them but the last holding rows items and the
\* last between 1 and rows; build_columns returns only these columns, and
\* arrange_columns' candidate has exactly k columns, those after them empty.
C8_PartitionShape ==
    CandidateForK =>
        LET n == Len(Input)
            rows == RowsFor(n, k)
            full == RowsFor(n, rows)
        IN  /\ full <= k
            /\ Len(columns) = IF op = "columnize" THEN full ELSE k
            /\ \A j \in 1..Len(columns) :
                /\ j < full => Len(ColItems(j)) = rows
                /\ j = full => (Len(ColItems(j)) >= 1 /\ Len(ColItems(j)) <= rows)
                /\ j > full => Len(ColItems(j)) = 0
                /\ \A i \in 1..Len(ColItems(j)) :
                    ColItems(j)[i] = Input[(j - 1) * rows + i]

\* C8 witness: arrange_columns' candidate for 3 columns of 4 items, the third
\* column empty
C8_Witness ==
    /\ op = "arrange" /\ pc = "loop" /\ k = 3
    /\ Len(values.seq) = 4
    /\ Len(columns) = 3
    /\ Len(columns[2].items) = 2 /\ Len(columns[3].items) = 0
    /\ values.seq[1] # values.seq[2] /\ values.seq[2] # values.seq[3]

\* whether the partition for this many columns passes the solver's fit test
FitsFor(count) ==
    IF op = "columnize"
    THEN LET cand == BuildColumns(strings, count)
         IN  SumSeq([j \in 1..Len(cand) |-> MaxLenOf(cand[j].strings)])
                + Len(spacer) * (Len(cand) - 1) + 1 <= width
    ELSE LET cand == ArrangeLists(values.seq, count)
         IN  SumSeq([j \in 1..count |-> MaxLenOf(MapStr(cand[j]))])
                + Len(spacer) * (count - 1) <= width

\* C9: for a non-empty item list and any max_width >= 0 the search raises
\* nothing and builds at most (item count) candidates, and when no candidate of
\* more than one column fits it returns the single column of all the items.
C9_Termination ==
    (Solving /\ Len(values.seq) >= 1) =>
        /\ err = "none" /\ pc # "raised"
        /\ tried <= Len(values.seq)
        /\ (Returned /\ \A c \in 2..Len(values.seq) : ~FitsFor(c)) =>
            (Len(columns) = 1 /\ ColItems(1) = Input)

\* C9: the candidate column count strictly decreases at every retry
C9_Decreasing ==
    [][(tried >= 1 /\ tried' = tried + 1) => k' < k]_vars

\* the partitions the search of get_fitting_columns may look at
CountsInClaim ==
    1..(IF op = "columnize" THEN Min(width, Len(Input)) ELSE Len(Input))

\* the column count of the partition for this many columns
ColumnsFor(count) ==
    IF op = "columnize" THEN Len(BuildColumns(strings, count)) ELSE count

\* C10: for a non-empty item list and max_width >= 1 the layout returned has
\* the greatest column count among the column-major partitions (rows =
\* ceil(n / k), 1 <= k <= min(max_width, n); every k <= n for arrange_columns)
\* that pass the solver's fit test, and it fits itself when it has more than
\* one column.
C10_Densest ==
    (Solving /\ Len(values.seq) >= 1 /\ width >= 1 /\ Returned) =>
        /\ \A c \in CountsInClaim : FitsFor(c) => ColumnsFor(c) <= Len(columns)
        /\ Len(columns) > 1 => LayoutWidth + (IF op = "columnize" THEN 1 ELSE 0) <= width
        /\ \E c \in CountsInClaim : ColumnsFor(c) = Len(columns)

\* C10 witness: get_fitting_columns asked for 3 columns of 4 items, got 2 from
\* build_columns, found them too wide and went on to 1
C10_Witness ==
    /\ op = "columnize" /\ ~values.mapping /\ pc = "render"
    /\ Len(strings) = 4 /\ width = 3
    /\ tried = 2 /\ Len(columns) = 1

\* text padded to the width w by an alignment: on the right (left-aligned), on
\* the left (right-aligned), or on both sides with the odd space on the right
\* (centred); a text longer than w is left as it is
PadTo(text, w, align) ==
    LET pad == IF w > Len(text) THEN w - Len(text) ELSE 0
        left == IF align = ">" THEN pad ELSE IF align = "^" THEN pad \div 2 ELSE 0
    IN  [i \in 1..left |-> " "] \o text \o [i \in 1..(pad - left) |-> " "]

\* a column's effective width: its fixed width, or its longest string's length
EffWidthOf(col) ==
    IF col.width.kind = "int" THEN col.width.val
    ELSE MaxLenOf([i \in 1..Len(col.items) |-> Str(col.items[i])])

\* the lines the claim describes for a list of columns and a spacer
ExpectedLines(cols, sp) ==
    LET rows == MaxCount([j \in 1..Len(cols) |-> Len(cols[j].items)])
        Cell(j, i) == IF i <= Len(cols[j].items) THEN Str(cols[j].items[i]) ELSE <<>>
    IN  [i \in 1..rows |->
            RStrip(Join(sp, [j \in 1..Len(cols) |->
                                PadTo(Cell(j, i), EffWidthOf(cols[j]), cols[j].align)]))]

\* the Screen's model holds Column objects only
ModelOfColumns == \A j \in 1..Len(model) : model[j].kind = "column"

\* C4: for any list of columns and any spacer, iterating the Screen raises
\* nothing and yields one line per row index of the longest column (none when
\* there are no columns), line i being the spacer-join of every column's i-th
\* string ("" where it has none) padded to the column's effective width by its
\* alignment, trailing whitespace removed.
C4_RowRendering ==
    (op = "screen" /\ ModelOfColumns) =>
        \A r \in 1..Len(out) :
            /\ out[r].err = "none"
            /\ out[r].lines = ExpectedLines(model, spacer)
            /\ \A i \in 1..Len(out[r].lines) :
                out[r].lines[i] = <<>>
                    \/ out[r].lines[i][Len(out[r].lines[i])] \notin Whitespace

\* C5: iterating the same Screen twice yields the same lines, and within one
\* render the emptiness check, the template and the row zip see the same
\* columns.
C5_Idempotent ==
    op = "screen" =>
        /\ Len(out) = 2 => out[1] = out[2]
        /\ \A a, b \in 1..Len(seen) : seen[a] = seen[b]

\* what get_fitting_columns returns for the items, spacer and width of the
\* arrange_columns call of this state, its line_width one more than the width
\* and its strings the items as columnize converts them
WithMargin == GetFittingColumns(MapStr(values.seq), Len(spacer), width + 1)

\* C11: the two solvers agree up to the 1-character margin: for every item
\* list, spacer and width W, with no fixed column widths, what
\* arrange_columns(items, spacer, W) returns and what
\* ColumnCalculator(items, len(spacer)).get_fitting_columns(W + 1) returns are
\* the same layout: neither raises, both have the same number of columns with
\* the same items in each column, and the rendered lines are the same.
C11_SolversAgree ==
    (op = "arrange" /\ ~col_widths.given /\ Returned) =>
        /\ WithMargin.err = "none"
        /\ Len(WithMargin.columns) = Len(columns)
        /\ \A j \in 1..Len(columns) :
            WithMargin.columns[j].strings = ColStrings(columns[j])
        /\ \A r \in 1..Len(out) :
            /\ out[r].err = "none"
            /\ out[r].lines = IterLines(WithMargin.columns, spacer)

\* the columns without the empty ones at their end
RECURSIVE DropEmpty(_)
DropEmpty(cols) ==
    IF cols = <<>> THEN cols
    ELSE IF cols[Len(cols)].items = <<>> THEN DropEmpty(SubSeq(cols, 1, Len(cols) - 1))
    ELSE cols

\* C11, where the two solvers do agree: for a non-empty item list whose
\* search starts at the same column count in both (W + 1 >= item count, or a
\* non-empty spacer, or no empty string among the items), get_fitting_columns
\* raises nothing, its columns are those of arrange_columns without the empty
\* ones at their end, and the rendered lines are the same.
C11_AgreePastEmptyColumns ==
    (op = "arrange" /\ ~col_widths.given /\ Returned /\ Len(values.seq) >= 1
        /\ (\/ width + 1 >= Len(values.seq)
            \/ Len(spacer) >= 1
            \/ \A i \in 1..Len(values.seq) : Str(values.seq[i]) # <<>>)) =>
        /\ WithMargin.err = "none"
        /\ Len(WithMargin.columns) = Len(DropEmpty(columns))
        /\ \A j \in 1..Len(WithMargin.columns) :
            WithMargin.columns[j].strings = ColStrings(columns[j])
        /\ \A r \in 1..Len(out) :
            /\ out[r].err = "none"
            /\ out[r].lines = IterLines(WithMargin.columns, spacer)

====
